---- MODULE Spec2Model ----
(***************************************************************************)
(* Slack reply delivery with optional native streaming.                    *)
(*                                                                         *)
(* Models dispatchPreparedSlackMessage (message-handler/dispatch.ts) and   *)
(* the stream session helpers of slack/streaming.ts.  One behaviour of     *)
(* Spec is the handling of one incoming message: the reply generator hands *)
(* reply events to the dispatcher, the dispatcher delivers them one after  *)
(* the other through deliverWithOptionalStreaming, and the dispatch ends   *)
(* by a normal return or by an exception of the generator.                 *)
(*                                                                         *)
(* The code is asynchronous: a step of the model is what runs between two  *)
(* awaits of the dispatch function.  Every await of the router and of the  *)
(* finally block suspends its caller, whether or not the awaited function  *)
(* reached the transport, and the generator, the dispatcher, the other     *)
(* suspended caller and the transport may act before it resumes.  The      *)
(* catch and finally blocks of stopStreamIfActive are a step of their own: *)
(* they run when the stop has settled, and the caller of                   *)
(* stopStreamIfActive resumes in a later step.  A transport call is logged *)
(* when it is issued and settles, with its outcome, in the step that       *)
(* resumes the function awaiting it.  A text is the sequence of its UTF-16 *)
(* code units, so that trim, startsWith and slice are computed.            *)
(***************************************************************************)
EXTENDS Integers, Sequences, FiniteSets, TLC

VARIABLES
  replyToMode,       \* ctx.replyToMode: "all" | "first" | "off"
  streaming,         \* account.config.streaming === true
  incomingThreadTs,  \* message.thread_ts (NoTs when absent)
  hasReplied,        \* hasRepliedRef.value
  streamSession,     \* the active SlackStreamSession or NoSession (null)
  streamFailed,      \* sticky "stream API failed for this response"
  streamedText,      \* text tracked for the active stream
  calls,             \* history: transport calls issued, in order
  events,            \* history: reply events whose delivery has settled
  pc,                \* the dispatch: "running", "returning", "throwing",
                     \* "done", "threw"; "delta", "session" for components
  deltaCall,         \* last resolveStreamDelta call (SpecDelta), or NoDelta
  post,              \* bookkeeping done after the dispatch returned
  sessionOps,        \* history: operations called on one session (SpecSession)
  queue,             \* reply events handed to the dispatcher, not yet begun
  delivery,          \* the delivery in progress and where it is suspended
  teardown,          \* the finally block of the dispatch, while suspended
  other,             \* a second dispatch (SpecPair)
  typing             \* typing indicator: didSetStatus and the calls made

\* state used only by the specifications of single components
auxVars == <<sessionOps, other>>

vars == <<replyToMode, streaming, incomingThreadTs, hasReplied, streamSession,
          streamFailed, streamedText, calls, events, pc, deltaCall, post,
          queue, delivery, teardown, auxVars, typing>>

----------------------------------------------------------------------------
(* Bounds and input domains *)

MaxEvents == 2
MaxDeltaSteps == 2
MaxSessionOps == 4

\* a text is the sequence of its UTF-16 code units; CodeUnit and Text write
\* the characters used here
CodeUnit(c) ==
  CASE c = "\t" -> 9
    [] c = "\n" -> 10
    [] c = " " -> 32
    [] c = "1" -> 49
    [] c = "9" -> 57
    [] c = "N" -> 78
    [] c = "a" -> 97
    [] c = "b" -> 98

Text(s) == [i \in 1..Len(s) |-> CodeUnit(s[i])]

NoTs == <<>>
messageTs == Text(<<"1">>)
NoSession == [threadTs |-> NoTs, stopped |-> FALSE, sid |-> 0]
NoDelta == [prev |-> <<>>, next |-> <<>>, delta |-> <<>>, n |-> 0]
SILENT_REPLY_TOKEN == Text(<<"N">>)

Modes == {"all", "first", "off"}
IncomingThreads == {NoTs, Text(<<"9">>)}

Payload(t, url, urls) == [text |-> t, mediaUrl |-> url, mediaUrls |-> urls]

\* the first block text is a tab and U+00A0
ReplyEvents ==
  {[payload |-> Payload(t, "", <<>>), kind |-> "block"] :
      t \in {<<9, 160>>, Text(<<" ", "a">>), Text(<<"a", "b">>)}}
  \cup {[payload |-> Payload(Text(<<"b">>), "", <<>>), kind |-> "final"],
        [payload |-> Payload(Text(<<"a">>), "", <<"u">>), kind |-> "final"],
        [payload |-> Payload(Text(<<"a", "b">>), "", <<>>), kind |-> "tool"],
        [payload |-> Payload(SILENT_REPLY_TOKEN, "", <<>>), kind |-> "final"]}

DeltaChars == {CodeUnit("a"), CodeUnit("b"), CodeUnit("\n")}
DeltaTexts == {<<>>} \cup UNION {[1..n -> DeltaChars] : n \in 1..2}

----------------------------------------------------------------------------
(* Text helpers *)

\* WhiteSpace and LineTerminator of ECMAScript, which String.prototype.trim
\* strips: tab, line feed, vertical tab, form feed, carriage return, space,
\* U+00A0, U+1680, U+2000 to U+200A, U+2028, U+2029, U+202F, U+205F, U+3000
\* and U+FEFF
IsSpace(c) ==
  c \in {9, 10, 11, 12, 13, 32, 160, 5760, 8232, 8233, 8239, 8287, 12288, 65279}
        \cup 8192..8202

RECURSIVE TrimStart(_)
TrimStart(s) == IF s # <<>> /\ IsSpace(Head(s)) THEN TrimStart(Tail(s)) ELSE s

RECURSIVE TrimEnd(_)
TrimEnd(s) ==
  IF s # <<>> /\ IsSpace(s[Len(s)]) THEN TrimEnd(SubSeq(s, 1, Len(s) - 1)) ELSE s

trim(s) == TrimEnd(TrimStart(s))

startsWith(s, p) == Len(p) <= Len(s) /\ SubSeq(s, 1, Len(p)) = p

slice(s, from) == SubSeq(s, from + 1, Len(s))

\* a transport call as it is issued: not settled yet
Call(op, ev, text, threadTs, sid, flag) ==
  [op |-> op, ev |-> ev, ok |-> FALSE, settled |-> FALSE, text |-> text,
   threadTs |-> threadTs, sid |-> sid, flag |-> flag]

\* the call once the transport has answered
Settled(c, fail) == [c EXCEPT !.settled = TRUE, !.ok = ~fail]

NextSid(log) == Cardinality({k \in 1..Len(log) : log[k].op = "start"}) + 1

----------------------------------------------------------------------------
(* streaming.ts: each operator is the function up to its await; it answers the
   transport calls it issued, the last of which the caller is suspended on *)

\* variant: an empty text still reaches the transport
appendSlackStream_sendsEmpty(session, text, ev, flag) ==
  IF session.stopped
  THEN <<>>
  ELSE <<Call("append", ev, text, session.threadTs, session.sid, flag)>>

\* variant: a failed append is tried a second time
appendSlackStream_retries(session, text, ev, flag) ==
  IF text = <<>> \/ session.stopped
  THEN <<>>
  ELSE <<Settled(Call("append", ev, text, session.threadTs, session.sid, flag), TRUE),
         Call("append", ev, text, session.threadTs, session.sid, flag)>>

\* variant: an append on a stopped session still reaches the transport
appendSlackStream_ignoresStopped(session, text, ev, flag) ==
  IF text = <<>>
  THEN <<>>
  ELSE <<Call("append", ev, text, session.threadTs, session.sid, flag)>>

\* lines 37-45
appendSlackStream(session, text, ev, flag) ==
  IF text = <<>> \/ session.stopped
  THEN <<>>
  ELSE <<Call("append", ev, text, session.threadTs, session.sid, flag)>>

\* variant: the initial text is not appended
startSlackStream_noSeed(threadTs, text, sid, failStart, ev, flag) ==
  IF failStart
  THEN [session |-> NoSession,
        log |-> <<Settled(Call("start", ev, <<>>, threadTs, sid, flag), TRUE)>>,
        threw |-> TRUE]
  ELSE [session |-> [threadTs |-> threadTs, stopped |-> FALSE, sid |-> sid],
        log |-> <<Settled(Call("start", ev, <<>>, threadTs, sid, flag), FALSE)>>,
        threw |-> FALSE]

\* lines 13-32: chatStream answers at once, the append of the initial text is
\* awaited
startSlackStream(threadTs, text, sid, failStart, ev, flag) ==
  IF failStart
  THEN [session |-> NoSession,
        log |-> <<Settled(Call("start", ev, <<>>, threadTs, sid, flag), TRUE)>>,
        threw |-> TRUE]
  ELSE LET session == [threadTs |-> threadTs, stopped |-> FALSE, sid |-> sid]
       IN [session |-> session,
           log |-> <<Settled(Call("start", ev, <<>>, threadTs, sid, flag), FALSE)>>
                   \o (IF text # <<>>
                       THEN appendSlackStream(session, text, ev, flag)
                       ELSE <<>>),
           threw |-> FALSE]

\* variant: the session is not marked stopped before the transport stop is awaited
stopSlackStream_marksAfterStop(session, text, ev, flag) ==
  [session |-> session,
   log |-> <<Call("stop", ev, text, session.threadTs, session.sid, flag)>>]

\* lines 49-57: the optional text rides on the stop call
stopSlackStream(session, text, ev, flag) ==
  IF session.stopped
  THEN [session |-> session, log |-> <<>>]
  ELSE [session |-> [session EXCEPT !.stopped = TRUE],
        log |-> <<Call("stop", ev, text, session.threadTs, session.sid, flag)>>]

----------------------------------------------------------------------------
(* Thread-target planner (replies.ts) *)

resolveSlackThreadTs(mode, incoming, msgTs, replied) ==
  CASE mode = "off" -> NoTs
    [] mode = "all" -> IF incoming # NoTs THEN incoming ELSE msgTs
    [] mode = "first" ->
         IF replied THEN NoTs ELSE IF incoming # NoTs THEN incoming ELSE msgTs

nextThreadTs(replied) ==
  resolveSlackThreadTs(replyToMode, incomingThreadTs, messageTs, replied)

\* variant: marking flips the flag
markSent_toggles(replied) == ~replied

markSent(replied) == TRUE

isSilentReplyText(text, token) == text = token

----------------------------------------------------------------------------
(* dispatch.ts: the typing callbacks *)

NoTyping == [didSetStatus |-> FALSE, log |-> <<>>, stops |-> 0]

\* variant: the typing-off call is made whether or not the status was set
typingStop_unguarded(t) ==
  [didSetStatus |-> FALSE, log |-> Append(t.log, "off"), stops |-> t.stops + 1]

\* typingCallbacks start and stop, lines 695-714; log holds the transport
\* calls, stops counts the invocations of stop. The outcome of a call changes
\* nothing: didSetStatus is assigned before the call is awaited.
typingStart(t) == [t EXCEPT !.didSetStatus = TRUE, !.log = Append(@, "on")]

typingStop(t) ==
  IF ~t.didSetStatus
  THEN [t EXCEPT !.stops = @ + 1]
  ELSE [didSetStatus |-> FALSE, log |-> Append(t.log, "off"), stops |-> t.stops + 1]

\* createTypingCallbacks: onReplyStart runs start, onIdle runs stop, errors are
\* handed to onStartError and onStopError
onReplyStart(t) == typingStart(t)

onIdle(t) == typingStop(t)

\* lines 861-864: the dispatcher reports a delivery error
onError(t, threw) == IF threw THEN onIdle(t) ELSE t

\* variant: the end of the dispatch does not reach the typing indicator
markDispatchIdle_silent(t) == t

\* line 888: the dispatcher is told the dispatch is over and settles to idle
markDispatchIdle(t) == onIdle(t)

----------------------------------------------------------------------------
(* dispatch.ts: the delivery router.  s is the state the closures work on:
   session, failed, text, replied (lines 686, 752-754) and log, the transport
   calls issued so far; then, for the call of the router that is running: at,
   the await it is suspended at ("end" once it has returned or thrown), wait,
   the transport call that await is suspended on (0 when the awaited function
   made none), inTry, whether the awaited stopStreamIfActive is suspended in
   its try block, opened, the session startSlackStream has not yet returned,
   marks, the markSent calls made, threw, whether it has thrown *)

hasMedia(payload) == payload.mediaUrl # "" \/ Len(payload.mediaUrls) > 0

streamThreadHint ==
  resolveSlackThreadTs(replyToMode, incomingThreadTs, messageTs, FALSE)

useStreaming == streaming /\ streamThreadHint # NoTs

NoClosure ==
  [session |-> NoSession, failed |-> FALSE, text |-> <<>>, replied |-> FALSE,
   log |-> <<>>, at |-> "idle", wait |-> 0, inTry |-> FALSE,
   opened |-> NoSession, marks |-> 0, threw |-> FALSE]

\* the router is suspended at the await at: the awaited function has issued
\* the calls of log, the last of which it awaits, or none
Suspended(s, at, log) ==
  [s EXCEPT !.log = @ \o log,
            !.at = at,
            !.wait = IF log = <<>> THEN 0 ELSE Len(s.log) + Len(log)]

\* the awaited call, if one was made, settles
Settle(s, fail) ==
  IF s.wait = 0 THEN s ELSE [s EXCEPT !.log[s.wait] = Settled(@, fail), !.wait = 0]

\* lines 756-761, up to the await of stopSlackStream: without a session the
\* function returns at line 758; with one, stopSlackStream is called and
\* awaited, whether or not it made a transport call
stopStreamIfActive(s, ev) ==
  IF s.session = NoSession
  THEN [s EXCEPT !.wait = 0, !.inTry = FALSE]
  ELSE LET r == stopSlackStream(s.session, <<>>, ev, s.failed)
       IN [s EXCEPT !.session = r.session,
                    !.log = @ \o r.log,
                    !.wait = IF r.log = <<>> THEN 0 ELSE Len(s.log) + Len(r.log),
                    !.inTry = TRUE]

\* variant: the session is cleared only when the transport stop succeeded
stopSettled_keepsOnFailure(s, fail) ==
  IF fail
  THEN [Settle(s, fail) EXCEPT !.failed = TRUE]
  ELSE [Settle(s, fail) EXCEPT !.session = NoSession, !.text = <<>>]

\* variant: the stop step clears the session and keeps the tracked text
stopSettled_keepsText(s, fail) ==
  [Settle(s, fail) EXCEPT !.failed = @ \/ fail, !.session = NoSession]

\* lines 762-768: the stop call has settled; the catch and the finally block
stopSettled(s, fail) ==
  [Settle(s, fail) EXCEPT !.failed = @ \/ fail,
                          !.session = NoSession,
                          !.text = <<>>]

\* the await of stopSlackStream resumes in stopStreamIfActive: the catch and
\* the finally block run and the function returns; its caller is still
\* suspended
stopResumed(s, fail) == [stopSettled(s, fail) EXCEPT !.inTry = FALSE]

\* variant: a send without thread target is attached to the triggering message
deliverNormal_defaultsThread(s, payload, replyThreadTs, ev) ==
  Suspended(s, "send", <<Call("send", ev, payload.text,
                               IF replyThreadTs = NoTs THEN messageTs
                               ELSE replyThreadTs,
                               0, s.failed)>>)

\* variant: the plan is marked sent before the send is awaited
deliverNormal_marksBeforeSend(s, payload, replyThreadTs, ev) ==
  Suspended([s EXCEPT !.replied = markSent(@), !.marks = @ + 1], "send",
            <<Call("send", ev, payload.text, replyThreadTs, 0, s.failed)>>)

\* variant: once a reply was sent, a discrete send carries no thread
deliverNormal_unthreadedAfterReply(s, payload, replyThreadTs, ev) ==
  Suspended(s, "send", <<Call("send", ev, payload.text,
                               IF s.replied THEN NoTs ELSE replyThreadTs,
                               0, s.failed)>>)

\* lines 771-780: deliverReplies is awaited
deliverNormal(s, payload, replyThreadTs, ev) ==
  Suspended(s, "send",
            <<Call("send", ev, payload.text, replyThreadTs, 0, s.failed)>>)

\* line 781 when the send succeeded; a failed send leaves the router
sendSettled(s, fail) ==
  [Settle(s, fail) EXCEPT !.replied = IF fail THEN @ ELSE markSent(@),
                          !.marks = IF fail THEN @ ELSE @ + 1,
                          !.threw = fail,
                          !.at = "end"]

\* variant: a shrunk text is not recognised and is handled as divergent
resolveStreamDelta_shrinkAsDivergent(tracked, nextText) ==
  IF tracked = <<>>
  THEN [delta |-> nextText, streamedText |-> nextText]
  ELSE IF nextText = tracked
  THEN [delta |-> <<>>, streamedText |-> tracked]
  ELSE IF startsWith(nextText, tracked)
  THEN [delta |-> slice(nextText, Len(tracked)), streamedText |-> nextText]
  ELSE [delta |-> Text(<<"\n">>) \o nextText,
        streamedText |-> tracked \o Text(<<"\n">>) \o nextText]

\* variant: on divergence the tracked text is replaced by the next text
resolveStreamDelta_replacesOnDivergence(tracked, nextText) ==
  IF tracked = <<>>
  THEN [delta |-> nextText, streamedText |-> nextText]
  ELSE IF nextText = tracked
  THEN [delta |-> <<>>, streamedText |-> tracked]
  ELSE IF startsWith(nextText, tracked)
  THEN [delta |-> slice(nextText, Len(tracked)), streamedText |-> nextText]
  ELSE IF startsWith(tracked, nextText)
  THEN [delta |-> <<>>, streamedText |-> nextText]
  ELSE [delta |-> Text(<<"\n">>) \o nextText, streamedText |-> nextText]

resolveStreamDelta(tracked, nextText) ==
  IF tracked = <<>>
  THEN [delta |-> nextText, streamedText |-> nextText]
  ELSE IF nextText = tracked
  THEN [delta |-> <<>>, streamedText |-> tracked]
  ELSE IF startsWith(nextText, tracked)
  THEN [delta |-> slice(nextText, Len(tracked)), streamedText |-> nextText]
  ELSE IF startsWith(tracked, nextText)
  THEN [delta |-> <<>>, streamedText |-> nextText]
  ELSE [delta |-> Text(<<"\n">>) \o nextText,
        streamedText |-> tracked \o Text(<<"\n">>) \o nextText]

canStreamText(failed, kind, payload, effectiveThreadTs, text) ==
  /\ useStreaming
  /\ ~failed
  /\ kind # "tool"
  /\ ~hasMedia(payload)
  /\ effectiveThreadTs # NoTs
  /\ text # <<>>
  /\ ~isSilentReplyText(text, SILENT_REPLY_TOKEN)

\* lines 819, 824 and 852: stopStreamIfActive is called and awaited; at names
\* the await, the payload is sent when it resumes
stopThenSend(s, payload, replyThreadTs, ev, at) ==
  [stopStreamIfActive(s, ev) EXCEPT !.at = at]

\* variant: a streamed reply is not marked sent
streamDelivered_noMark(s) == [s EXCEPT !.at = "end", !.wait = 0]

\* line 848
streamDelivered(s) ==
  [s EXCEPT !.replied = markSent(@), !.marks = @ + 1, !.at = "end", !.wait = 0]

\* variant: with no stream left to stop, the fallback drops the payload
streamFallback_dropsPayload(s, payload, replyThreadTs, ev) ==
  LET s1 == stopStreamIfActive([s EXCEPT !.failed = TRUE], ev)
  IN IF s1.inTry THEN [s1 EXCEPT !.at = "F_stop"] ELSE [s1 EXCEPT !.at = "end"]

\* variant: the catch block marks the plan sent before the fallback send
streamFallback_marksFirst(s, payload, replyThreadTs, ev) ==
  stopThenSend([s EXCEPT !.failed = TRUE, !.replied = markSent(@), !.marks = @ + 1],
               payload, replyThreadTs, ev, "F_stop")

\* the catch block, lines 849-852, up to the await of stopStreamIfActive
streamFallback(s, payload, replyThreadTs, ev) ==
  stopThenSend([s EXCEPT !.failed = TRUE], payload, replyThreadTs, ev, "F_stop")

\* variant: the send that follows the stop carries no thread
sendAfterStop_unthreaded(s, payload, replyThreadTs, ev) ==
  deliverNormal(s, payload, NoTs, ev)

\* lines 820, 825 and 853: the await of stopStreamIfActive has resumed and the
\* payload is sent
sendAfterStop(s, payload, replyThreadTs, ev) ==
  deliverNormal(s, payload, replyThreadTs, ev)

\* line 832: startSlackStream is called and awaited. chatStream has answered
\* or thrown; the router resumes when the seed append has settled ("seed"), or
\* in a later step when startSlackStream settled without an append ("start")
startStream(s, payload, replyThreadTs, text, failStart, ev) ==
  LET r == startSlackStream(trim(replyThreadTs), text, NextSid(s.log), failStart,
                            ev, s.failed)
      s1 == [s EXCEPT !.opened = r.session]
  IN IF ~r.threw /\ Len(r.log) > 1
     THEN Suspended(s1, "seed", r.log)
     ELSE [Suspended(s1, "start", r.log) EXCEPT !.wait = 0]

\* lines 832-838 and 848: startSlackStream has returned the session
streamStarted(s, text) ==
  streamDelivered([s EXCEPT !.session = s.opened, !.text = text])

\* lines 839-847: a delta of the text, if there is one, is handed to
\* appendSlackStream, which is awaited whether or not it made a transport call
appendDelta(s, text, ev) ==
  LET d == resolveStreamDelta(s.text, text)
      s1 == [s EXCEPT !.text = d.streamedText]
  IN IF d.delta = <<>>
     THEN streamDelivered(s1)
     ELSE Suspended(s1, "append",
                    appendSlackStream(s.session, d.delta, ev, s.failed))

\* variant: an active session is reused whatever its thread
streamAttempt_reusesAcrossThreads(s, payload, replyThreadTs, text, ev) ==
  IF s.session = NoSession
  THEN [stopStreamIfActive(s, ev) EXCEPT !.at = "R_stop"]
  ELSE appendDelta(s, text, ev)

\* the try block, lines 829-847, up to its first await: of stopStreamIfActive
\* at line 831, or of appendSlackStream at line 842
streamAttempt(s, payload, replyThreadTs, text, ev) ==
  IF s.session = NoSession \/ s.session.threadTs # trim(replyThreadTs)
  THEN [stopStreamIfActive(s, ev) EXCEPT !.at = "R_stop"]
  ELSE appendDelta(s, text, ev)

\* variant: a payload without thread target is streamed to the thread of the hint
deliverWithThread_threadFromHint(s, payload, kind, ev, replyThreadTs) ==
  LET hinted == IF trim(replyThreadTs) = NoTs THEN streamThreadHint ELSE replyThreadTs
      text == trim(payload.text)
  IN IF ~canStreamText(s.failed, kind, payload, trim(hinted), text)
     THEN stopThenSend(s, payload, replyThreadTs, ev, "N_stop")
     ELSE streamAttempt(s, payload, hinted, text, ev)

\* lines 807-847 up to the first await, once replyPlan.nextThreadTs() has
\* answered
deliverWithThread(s, payload, kind, ev, replyThreadTs) ==
  LET effectiveThreadTs == trim(replyThreadTs)
      text == trim(payload.text)
  IN IF ~canStreamText(s.failed, kind, payload, effectiveThreadTs, text)
     THEN stopThenSend(s, payload, replyThreadTs, ev, "N_stop")
     ELSE IF effectiveThreadTs = NoTs
     THEN stopThenSend(s, payload, replyThreadTs, ev, "N_stop")
     ELSE streamAttempt(s, payload, replyThreadTs, text, ev)

deliverWithOptionalStreaming(s, payload, kind, ev) ==
  deliverWithThread(s, payload, kind, ev, nextThreadTs(s.replied))

\* what the delivery awaits has settled, with failure or not: the
\* stopStreamIfActive it has called runs its catch and finally block, or the
\* router resumes and runs to its next await or to its end
deliverResumed(s, payload, replyThreadTs, ev, fail, failStart) ==
  CASE s.at \in {"N_stop", "F_stop", "R_stop"} /\ s.inTry ->
         stopResumed(s, fail)
    [] s.at \in {"N_stop", "F_stop"} /\ ~s.inTry ->
         sendAfterStop(s, payload, replyThreadTs, ev)
    [] s.at = "R_stop" /\ ~s.inTry ->
         startStream(s, payload, replyThreadTs, trim(payload.text), failStart, ev)
    [] s.at = "start" ->
         IF s.opened = NoSession
         THEN streamFallback(s, payload, replyThreadTs, ev)
         ELSE streamStarted(s, trim(payload.text))
    [] s.at = "seed" ->
         IF fail
         THEN streamFallback(Settle(s, fail), payload, replyThreadTs, ev)
         ELSE streamStarted(Settle(s, fail), trim(payload.text))
    [] s.at = "append" ->
         IF fail
         THEN streamFallback(Settle(s, fail), payload, replyThreadTs, ev)
         ELSE streamDelivered(Settle(s, fail))
    [] s.at = "send" -> sendSettled(s, fail)

----------------------------------------------------------------------------
(* The dispatch of one incoming message *)

NoEvent == [payload |-> Payload(<<>>, "", <<>>), kind |-> "none"]

\* event, replyThreadTs: the arguments and the thread target of the call of
\* deliver; eligible, hadReplied, from: canStreamText, hasReplied and the number
\* of transport calls issued when it began
NoDelivery ==
  [at |-> "idle", wait |-> 0, inTry |-> FALSE, opened |-> NoSession, marks |-> 0,
   event |-> NoEvent, replyThreadTs |-> NoTs, eligible |-> FALSE,
   hadReplied |-> FALSE, from |-> 0]

\* dispatchResult, lines 869 and 892, the value dispatchInboundMessage resolved
\* with: queuedFinal and counts, which here holds a count for both kinds the
\* code reads, or for none. It is assigned when the finally block has run.
DispatchResults ==
  [queuedFinal : BOOLEAN,
   counts : {<<>>} \cup [{"block", "final"} -> {0, 1}]]

NoResult == [queuedFinal |-> FALSE, counts |-> <<>>]

NoPost == [ack |-> FALSE, trim |-> FALSE, roomish |-> FALSE, result |-> NoResult]

\* wait, inTry: the stop call the await of the finally block is suspended on
\* and whether stopStreamIfActive is suspended in its try block; from: the
\* number of transport calls issued when the finally block was entered
NoTeardown == [wait |-> 0, inTry |-> FALSE, from |-> 0]

\* the state of the closures, with the suspended delivery in it
Closure ==
  [session |-> streamSession, failed |-> streamFailed, text |-> streamedText,
   replied |-> hasReplied, log |-> calls, at |-> delivery.at,
   wait |-> delivery.wait, inTry |-> delivery.inTry, opened |-> delivery.opened,
   marks |-> delivery.marks, threw |-> FALSE]

Init ==
  /\ replyToMode \in Modes
  /\ streaming \in BOOLEAN
  /\ incomingThreadTs \in IncomingThreads
  /\ hasReplied = FALSE
  /\ streamSession = NoSession
  /\ streamFailed = FALSE
  /\ streamedText = <<>>
  /\ calls = <<>>
  /\ events = <<>>
  /\ pc = "running"
  /\ deltaCall = NoDelta
  /\ post = NoPost
  /\ sessionOps = <<>>
  /\ queue = <<>>
  /\ delivery = NoDelivery
  /\ teardown = NoTeardown
  /\ other = NoClosure
  /\ typing = NoTyping

\* the reply events the generator has handed over so far
Emitted == Len(events) + Len(queue) + (IF delivery.at = "idle" THEN 0 ELSE 1)

\* dispatcher.sendBlockReply, sendToolResult, sendFinalReply: the generator
\* hands a reply event to the dispatcher, which queues it
Hand(e) ==
  /\ pc = "running"
  /\ queue' = Append(queue, e)
  /\ UNCHANGED <<replyToMode, streaming, incomingThreadTs, hasReplied,
                 streamSession, streamFailed, streamedText, calls, events, pc,
                 deltaCall, post, delivery, teardown, auxVars, typing>>

Emit(e) ==
  /\ Emitted < MaxEvents
  /\ Hand(e)

\* lines 684-686 and 878: the tool flow holds hasRepliedRef and marks it when
\* it has sent a reply of its own
ToolFlowMarks ==
  /\ pc = "running"
  /\ ~hasReplied
  /\ hasReplied' = TRUE
  /\ UNCHANGED <<replyToMode, streaming, incomingThreadTs, streamSession,
                 streamFailed, streamedText, calls, events, pc, deltaCall, post,
                 queue, delivery, teardown, auxVars, typing>>

\* what the closures assigned
Assign(s) ==
  /\ streamSession' = s.session
  /\ streamFailed' = s.failed
  /\ streamedText' = s.text
  /\ hasReplied' = s.replied
  /\ calls' = s.log

\* the delivery is suspended again, or it has settled: the dispatcher records
\* the event and reports an error through onError, lines 861-864
Proceed(s, d) ==
  /\ Assign(s)
  /\ IF s.at = "end"
     THEN /\ events' = Append(events,
               [payload |-> d.event.payload, kind |-> d.event.kind,
                replyThreadTs |-> d.replyThreadTs, eligible |-> d.eligible,
                hadReplied |-> d.hadReplied, from |-> d.from,
                tracked |-> s.text, replied |-> s.replied, threw |-> s.threw,
                marks |-> s.marks])
          /\ delivery' = NoDelivery
          /\ typing' = onError(typing, s.threw)
     ELSE /\ events' = events
          /\ delivery' = [d EXCEPT !.at = s.at, !.wait = s.wait,
                                   !.inTry = s.inTry, !.opened = s.opened,
                                   !.marks = s.marks]
          /\ typing' = typing

\* variant: a queued delivery starts without waiting for the one in progress
dispatcherIdle_always(d) == TRUE

\* the dispatcher chains the deliveries: the next one starts when the previous
\* one has settled
dispatcherIdle(d) == d.at = "idle"

\* the call of deliver for the oldest queued event, line 860
Begun(e, replyThreadTs) ==
  deliverWithThread([Closure EXCEPT !.at = "idle", !.wait = 0, !.inTry = FALSE,
                                    !.opened = NoSession, !.marks = 0],
                    e.payload, e.kind, Len(events) + 1, replyThreadTs)

\* the dispatcher invokes deliver for the oldest queued event, the reply plan
\* answers replyThreadTs, and the router runs to its first await
DeliverOnThread(replyThreadTs) ==
  /\ queue # <<>>
  /\ dispatcherIdle(delivery)
  /\ LET e == Head(queue)
     IN /\ Proceed(Begun(e, replyThreadTs),
                   [NoDelivery EXCEPT
                      !.event = e,
                      !.replyThreadTs = replyThreadTs,
                      !.eligible = canStreamText(streamFailed, e.kind, e.payload,
                                                 trim(replyThreadTs),
                                                 trim(e.payload.text)),
                      !.hadReplied = hasReplied,
                      !.from = Len(calls)])
  /\ queue' = Tail(queue)
  /\ UNCHANGED <<replyToMode, streaming, incomingThreadTs, pc, deltaCall, post,
                 teardown, auxVars>>

\* line 806: the thread target is the answer of replyPlan.nextThreadTs()
DeliverBegin == DeliverOnThread(nextThreadTs(hasReplied))

Resumed(fail, failStart) ==
  deliverResumed(Closure, delivery.event.payload, delivery.replyThreadTs,
                 Len(events) + 1, fail, failStart)

\* what the delivery awaits settles: the stopStreamIfActive it has called runs
\* its catch and finally block, or the router runs on to its next await. Only
\* a transport call fails; a failure of chatStream is drawn only when it is
\* called.
DeliverResume(fail, failStart) ==
  /\ delivery.at # "idle"
  /\ fail => delivery.wait # 0
  /\ failStart => Resumed(fail, TRUE) # Resumed(fail, FALSE)
  /\ Proceed(Resumed(fail, failStart), delivery)
  /\ UNCHANGED <<replyToMode, streaming, incomingThreadTs, pc, deltaCall, post,
                 queue, teardown, auxVars>>

\* line 892: const { queuedFinal, counts } = dispatchResult
queuedFinal(result) == result.queuedFinal

counts(result) == result.counts

\* counts.block ?? 0, counts.final ?? 0
orZero(c, kind) == IF kind \in DOMAIN c THEN c[kind] ELSE 0

\* line 894
anyReplyDelivered(result) ==
  \/ queuedFinal(result)
  \/ orZero(counts(result), "block") > 0
  \/ orZero(counts(result), "final") > 0

\* lines 896-944: acknowledgement removal and history trimming
\* variant: the acknowledgement is removed whatever the result
Bookkeeping_alwaysAck(result, isRoomish) ==
  [ack |-> TRUE, trim |-> isRoomish, roomish |-> isRoomish, result |-> result]

Bookkeeping(result, isRoomish) ==
  IF ~anyReplyDelivered(result)
  THEN [ack |-> FALSE, trim |-> isRoomish, roomish |-> isRoomish,
        result |-> result]
  ELSE [ack |-> TRUE, trim |-> isRoomish, roomish |-> isRoomish,
        result |-> result]

\* what follows the finally block: lines 892-944 after a return, nothing
\* after an exception
AfterFinally(outcome, result, isRoomish) ==
  IF outcome = "done" THEN Bookkeeping(result, isRoomish) ELSE post

\* the finally block, lines 887-889, up to the await of stopStreamIfActive
Teardown(outcome) ==
  LET s == stopStreamIfActive([Closure EXCEPT !.wait = 0, !.inTry = FALSE], 0)
  IN /\ Assign(s)
     /\ typing' = markDispatchIdle(typing)
     /\ teardown' = [wait |-> s.wait, inTry |-> s.inTry, from |-> Len(calls)]
     /\ pc' = IF outcome = "done" THEN "returning" ELSE "throwing"
     /\ UNCHANGED <<replyToMode, streaming, incomingThreadTs, events, deltaCall,
                    post, queue, delivery, auxVars>>

\* dispatchInboundMessage resolves once the dispatcher has drained its queue
GeneratorReturns ==
  /\ pc = "running"
  /\ queue = <<>>
  /\ delivery.at = "idle"
  /\ Teardown("done")

\* dispatchInboundMessage rejects: the finally block runs whatever the
\* dispatcher still holds
GeneratorThrows ==
  /\ pc = "running"
  /\ Teardown("threw")

\* the stopStreamIfActive of the finally block runs its catch and finally
\* block, once the stop call has settled when one was made; line 889 is still
\* suspended
TeardownStopSettles(fail) ==
  /\ pc \in {"returning", "throwing"}
  /\ teardown.inTry
  /\ fail => teardown.wait # 0
  /\ Assign(stopResumed([Closure EXCEPT !.wait = teardown.wait,
                                        !.inTry = teardown.inTry], fail))
  /\ teardown' = [teardown EXCEPT !.wait = 0, !.inTry = FALSE]
  /\ UNCHANGED <<replyToMode, streaming, incomingThreadTs, events, pc, deltaCall,
                 post, queue, delivery, auxVars, typing>>

\* the await of line 889 resumes: the dispatch goes on with result, the value
\* dispatchInboundMessage has resolved with, or throws
TeardownSettles(result, isRoomish) ==
  /\ pc \in {"returning", "throwing"}
  /\ ~teardown.inTry
  /\ LET outcome == IF pc = "returning" THEN "done" ELSE "threw"
     IN /\ pc' = outcome
        /\ post' = AfterFinally(outcome, result, isRoomish)
  /\ UNCHANGED <<replyToMode, streaming, incomingThreadTs, hasReplied,
                 streamSession, streamFailed, streamedText, calls, events,
                 deltaCall, queue, delivery, teardown, auxVars, typing>>

\* the reply events with a text to show and no media: the dispatch is explored
\* on these, the empty, the silent and the media payloads are explored under
\* SpecEligibility
DispatchEvents ==
  {e \in ReplyEvents :
     /\ trim(e.payload.text) \notin {<<>>, SILENT_REPLY_TOKEN}
     /\ ~hasMedia(e.payload)}

Next ==
  \/ \E e \in DispatchEvents : Emit(e)
  \/ ToolFlowMarks
  \/ DeliverBegin
  \/ \E fail \in BOOLEAN, failStart \in BOOLEAN : DeliverResume(fail, failStart)
  \/ GeneratorReturns
  \/ GeneratorThrows
  \/ \E fail \in BOOLEAN : TeardownStopSettles(fail)
  \/ \E result \in DispatchResults, isRoomish \in BOOLEAN :
        TeardownSettles(result, isRoomish)

Spec == Init /\ [][Next]_vars

----------------------------------------------------------------------------
(* The dispatch on every kind of payload, for the eligibility conditions: with
   three reply events a stream is started, left by an event that cannot be
   streamed, and started again.  Here and in the specifications that follow
   the dispatch resolves with NoResult; the bookkeeping on the other results
   is explored under Spec *)

MaxEligibilityEvents == 3

EmitAny(e) ==
  /\ Emitted < MaxEligibilityEvents
  /\ Hand(e)

NextEligibility ==
  \/ \E e \in ReplyEvents : EmitAny(e)
  \/ ToolFlowMarks
  \/ DeliverBegin
  \/ \E fail \in BOOLEAN, failStart \in BOOLEAN : DeliverResume(fail, failStart)
  \/ GeneratorReturns
  \/ GeneratorThrows
  \/ \E fail \in BOOLEAN : TeardownStopSettles(fail)
  \/ \E isRoomish \in BOOLEAN : TeardownSettles(NoResult, isRoomish)

SpecEligibility == Init /\ [][NextEligibility]_vars

----------------------------------------------------------------------------
(* The delta resolver on its own: any tracked text, any next text *)

InitDelta ==
  /\ replyToMode = "all"
  /\ streaming = TRUE
  /\ incomingThreadTs = NoTs
  /\ hasReplied = FALSE
  /\ streamSession = NoSession
  /\ streamFailed = FALSE
  /\ streamedText \in DeltaTexts
  /\ calls = <<>>
  /\ events = <<>>
  /\ pc = "delta"
  /\ deltaCall = NoDelta
  /\ post = NoPost
  /\ sessionOps = <<>>
  /\ queue = <<>>
  /\ delivery = NoDelivery
  /\ teardown = NoTeardown
  /\ other = NoClosure
  /\ typing = NoTyping

ResolveDelta(nextText) ==
  /\ pc = "delta"
  /\ deltaCall.n < MaxDeltaSteps
  /\ LET d == resolveStreamDelta(streamedText, nextText)
     IN /\ streamedText' = d.streamedText
        /\ deltaCall' = [prev |-> streamedText, next |-> nextText,
                         delta |-> d.delta, n |-> deltaCall.n + 1]
  /\ UNCHANGED <<replyToMode, streaming, incomingThreadTs, hasReplied,
                 streamSession, streamFailed, calls, events, pc, post, queue,
                 delivery, teardown, auxVars, typing>>

NextDelta == \E nextText \in DeltaTexts : ResolveDelta(nextText)

SpecDelta == InitDelta /\ [][NextDelta]_vars

----------------------------------------------------------------------------
(* One stream session on its own: start, then, once start has returned the
   session, appends and stops called in any order, also while an earlier
   transport call is still in flight.  streamSession is the session the caller
   holds; delivery.opened and delivery.wait are the session startSlackStream
   has not yet returned and the seed append it awaits *)

SessionTexts == {<<>>, Text(<<"a">>), Text(<<"b">>)}

InitSession ==
  /\ replyToMode = "all"
  /\ streaming = TRUE
  /\ incomingThreadTs = NoTs
  /\ hasReplied = FALSE
  /\ streamSession = NoSession
  /\ streamFailed = FALSE
  /\ streamedText = <<>>
  /\ calls = <<>>
  /\ events = <<>>
  /\ pc = "session"
  /\ deltaCall = NoDelta
  /\ post = NoPost
  /\ sessionOps = <<>>
  /\ queue = <<>>
  /\ delivery = NoDelivery
  /\ teardown = NoTeardown
  /\ other = NoClosure
  /\ typing = NoTyping

\* an operation called on the session and the transport calls it issued; the
\* operation throws when a call of its own fails
SessionOp(op, text, log) == [op |-> op, text |-> text, made |-> Len(log)]

SessionUnchanged ==
  UNCHANGED <<replyToMode, streaming, incomingThreadTs, hasReplied, streamFailed,
              streamedText, events, pc, deltaCall, post, queue, teardown, other,
              typing>>

\* startSlackStream is called: chatStream answers or throws; with an initial
\* text the seed append is awaited before the session is returned, lines 31-34
SessionStart(text, failStart) ==
  /\ pc = "session"
  /\ sessionOps = <<>>
  /\ LET r == startSlackStream(messageTs, text, 1, failStart, 1, FALSE)
         awaited == ~r.threw /\ Len(r.log) > 1
     IN /\ streamSession' = IF awaited THEN NoSession ELSE r.session
        /\ delivery' = IF awaited
                       THEN [NoDelivery EXCEPT !.at = "seed",
                                               !.wait = Len(calls) + Len(r.log),
                                               !.opened = r.session]
                       ELSE NoDelivery
        /\ calls' = calls \o r.log
        /\ sessionOps' = Append(sessionOps, SessionOp("start", text, r.log))
  /\ SessionUnchanged

SessionAppend(text) ==
  /\ pc = "session"
  /\ streamSession # NoSession
  /\ Len(sessionOps) < MaxSessionOps
  /\ LET log == appendSlackStream(streamSession, text, Len(sessionOps) + 1, FALSE)
     IN /\ calls' = calls \o log
        /\ sessionOps' = Append(sessionOps, SessionOp("append", text, log))
  /\ UNCHANGED <<streamSession, delivery>>
  /\ SessionUnchanged

SessionStop(text) ==
  /\ pc = "session"
  /\ streamSession # NoSession
  /\ Len(sessionOps) < MaxSessionOps
  /\ LET r == stopSlackStream(streamSession, text, Len(sessionOps) + 1, FALSE)
     IN /\ streamSession' = r.session
        /\ calls' = calls \o r.log
        /\ sessionOps' = Append(sessionOps, SessionOp("stop", text, r.log))
  /\ UNCHANGED delivery
  /\ SessionUnchanged

\* a transport call in flight settles; when it is the seed append,
\* startSlackStream returns the session or rejects
SessionSettles(k, fail) ==
  /\ pc = "session"
  /\ k \in 1..Len(calls)
  /\ ~calls[k].settled
  /\ calls' = [calls EXCEPT ![k] = Settled(@, fail)]
  /\ IF k = delivery.wait
     THEN /\ streamSession' = IF fail THEN NoSession ELSE delivery.opened
          /\ delivery' = NoDelivery
     ELSE UNCHANGED <<streamSession, delivery>>
  /\ UNCHANGED sessionOps
  /\ SessionUnchanged

NextSession ==
  \/ \E text \in SessionTexts, failStart \in BOOLEAN : SessionStart(text, failStart)
  \/ \E text \in SessionTexts : SessionAppend(text)
  \/ \E text \in SessionTexts : SessionStop(text)
  \/ \E k \in 1..(MaxSessionOps + 1), fail \in BOOLEAN : SessionSettles(k, fail)

SpecSession == InitSession /\ [][NextSession]_vars

----------------------------------------------------------------------------
(* The delivery router under an arbitrary reply plan: nextThreadTs() may answer
   any thread, so that the thread comparison of line 830 is exercised.  The
   generator returns; its failure is explored with the reply plan of the code,
   under Spec and, on longer responses, under SpecRestart *)

MaxThreadEvents == 3

PlannedThreads == {NoTs, Text(<<"1">>), Text(<<"9">>)}

ThreadEvents ==
  {e \in ReplyEvents :
     /\ e.kind = "block"
     /\ e.payload.text \in {Text(<<" ", "a">>), Text(<<"a", "b">>)}}

InitThreads ==
  /\ replyToMode = "all"
  /\ streaming = TRUE
  /\ incomingThreadTs \in IncomingThreads
  /\ hasReplied = FALSE
  /\ streamSession = NoSession
  /\ streamFailed = FALSE
  /\ streamedText = <<>>
  /\ calls = <<>>
  /\ events = <<>>
  /\ pc = "running"
  /\ deltaCall = NoDelta
  /\ post = NoPost
  /\ sessionOps = <<>>
  /\ queue = <<>>
  /\ delivery = NoDelivery
  /\ teardown = NoTeardown
  /\ other = NoClosure
  /\ typing = NoTyping

EmitThread(e) ==
  /\ Emitted < MaxThreadEvents
  /\ Hand(e)

NextThreads ==
  \/ \E e \in ThreadEvents : EmitThread(e)
  \/ \E t \in PlannedThreads : DeliverOnThread(t)
  \/ \E fail \in BOOLEAN, failStart \in BOOLEAN : DeliverResume(fail, failStart)
  \/ GeneratorReturns
  \/ \E fail \in BOOLEAN : TeardownStopSettles(fail)
  \/ \E isRoomish \in BOOLEAN : TeardownSettles(NoResult, isRoomish)

SpecThreads == InitThreads /\ [][NextThreads]_vars

----------------------------------------------------------------------------
(* Longer responses, on a streamable block and a tool result, in a threaded
   conversation with streaming on: a stream is stopped and another started
   within one response, and a failure of the generator leaves the finally
   block and the queued deliveries to run side by side *)

MaxRestartEvents == 4

RestartEvents ==
  {e \in ReplyEvents : e.payload.text \in {Text(<<" ", "a">>), Text(<<"a", "b">>)}}

InitRestart ==
  /\ replyToMode = "all"
  /\ streaming = TRUE
  /\ incomingThreadTs = NoTs
  /\ hasReplied = FALSE
  /\ streamSession = NoSession
  /\ streamFailed = FALSE
  /\ streamedText = <<>>
  /\ calls = <<>>
  /\ events = <<>>
  /\ pc = "running"
  /\ deltaCall = NoDelta
  /\ post = NoPost
  /\ sessionOps = <<>>
  /\ queue = <<>>
  /\ delivery = NoDelivery
  /\ teardown = NoTeardown
  /\ other = NoClosure
  /\ typing = NoTyping

EmitRestart(e) ==
  /\ Emitted < MaxRestartEvents
  /\ Hand(e)

NextRestart ==
  \/ \E e \in RestartEvents : EmitRestart(e)
  \/ DeliverBegin
  \/ \E fail \in BOOLEAN, failStart \in BOOLEAN : DeliverResume(fail, failStart)
  \/ GeneratorReturns
  \/ GeneratorThrows
  \/ \E fail \in BOOLEAN : TeardownStopSettles(fail)
  \/ \E isRoomish \in BOOLEAN : TeardownSettles(NoResult, isRoomish)

SpecRestart == InitRestart /\ [][NextRestart]_vars

----------------------------------------------------------------------------
(* Two dispatches in one process: each invocation of the dispatch function
   declares its own hasRepliedRef, streamSession, streamFailed and streamedText.
   The first dispatch is held in the variables of Spec, the second in other *)

MaxPairEvents == 2

PairEvents ==
  {e \in ReplyEvents :
     /\ e.kind = "block"
     /\ e.payload.text \in {Text(<<" ", "a">>), Text(<<"a", "b">>)}}

\* the closures of the second dispatch, its dispatcher (queue, the delivery in
\* progress, n deliveries settled) and its position
OtherInit ==
  [session |-> NoSession, failed |-> FALSE, text |-> <<>>, replied |-> FALSE,
   log |-> <<>>, at |-> "idle", wait |-> 0, inTry |-> FALSE,
   opened |-> NoSession, marks |-> 0, threw |-> FALSE, queue |-> <<>>, event |-> NoEvent, replyThreadTs |-> NoTs,
   n |-> 0, pc |-> "running"]

InitPair ==
  /\ replyToMode = "all"
  /\ streaming = TRUE
  /\ incomingThreadTs = NoTs
  /\ hasReplied = FALSE
  /\ streamSession = NoSession
  /\ streamFailed = FALSE
  /\ streamedText = <<>>
  /\ calls = <<>>
  /\ events = <<>>
  /\ pc = "running"
  /\ deltaCall = NoDelta
  /\ post = NoPost
  /\ sessionOps = <<>>
  /\ queue = <<>>
  /\ delivery = NoDelivery
  /\ teardown = NoTeardown
  /\ other = OtherInit
  /\ typing = NoTyping

\* variant: the failed flag lives outside the dispatch function and is shared
ClosureOther_sharedFailed == [other EXCEPT !.failed = @ \/ streamFailed]

\* the closure state of the second dispatch, lines 686 and 752-754
ClosureOther == other

FirstUnchanged ==
  UNCHANGED <<replyToMode, streaming, incomingThreadTs, hasReplied,
              streamSession, streamFailed, streamedText, calls, events, pc,
              deltaCall, post, queue, delivery, teardown, sessionOps, typing>>

\* a reply event of the first dispatch
EmitFirst(e) ==
  /\ Emitted < MaxPairEvents
  /\ Hand(e)

\* the generator of the second dispatch hands a reply event to its dispatcher
EmitOther(e) ==
  /\ other.pc = "running"
  /\ other.n + Len(other.queue) + (IF other.at = "idle" THEN 0 ELSE 1) < MaxPairEvents
  /\ other' = [other EXCEPT !.queue = Append(@, e)]
  /\ FirstUnchanged

\* the delivery of the second dispatch is suspended again, or it has settled
ProceedOther(s) ==
  other' = IF s.at = "end"
           THEN [s EXCEPT !.at = "idle", !.wait = 0, !.inTry = FALSE,
                          !.opened = NoSession,
                          !.marks = 0, !.threw = FALSE, !.event = NoEvent,
                          !.replyThreadTs = NoTs, !.n = @ + 1]
           ELSE s

BegunOther ==
  LET e == Head(other.queue)
  IN deliverWithThread([ClosureOther EXCEPT !.queue = Tail(@),
                                            !.event = e,
                                            !.replyThreadTs = nextThreadTs(other.replied)],
                       e.payload, e.kind, other.n + 1,
                       nextThreadTs(other.replied))

\* the dispatcher of the second dispatch invokes deliver
DeliverBeginOther ==
  /\ other.queue # <<>>
  /\ other.at = "idle"
  /\ ProceedOther(BegunOther)
  /\ FirstUnchanged

ResumedOther(fail, failStart) ==
  deliverResumed(ClosureOther, other.event.payload, other.replyThreadTs,
                 other.n + 1, fail, failStart)

\* what the delivery of the second dispatch awaits settles
DeliverResumeOther(fail, failStart) ==
  /\ other.at \notin {"idle", "teardown"}
  /\ fail => other.wait # 0
  /\ failStart => ResumedOther(fail, TRUE) # ResumedOther(fail, FALSE)
  /\ ProceedOther(ResumedOther(fail, failStart))
  /\ FirstUnchanged

\* the finally block of the second dispatch, up to its await
OtherReturns ==
  /\ other.pc = "running"
  /\ other.queue = <<>>
  /\ other.at = "idle"
  /\ other' = [stopStreamIfActive(ClosureOther, 0) EXCEPT !.at = "teardown",
                                                         !.pc = "returning"]
  /\ FirstUnchanged

\* the stopStreamIfActive of that finally block runs its catch and finally
\* block
OtherTeardownStopSettles(fail) ==
  /\ other.pc = "returning"
  /\ other.inTry
  /\ fail => other.wait # 0
  /\ other' = stopResumed(ClosureOther, fail)
  /\ FirstUnchanged

\* the await of that finally block resumes
OtherTeardownSettles ==
  /\ other.pc = "returning"
  /\ ~other.inTry
  /\ other' = [other EXCEPT !.at = "idle", !.pc = "done"]
  /\ FirstUnchanged

NextPair ==
  \/ \E e \in PairEvents : EmitFirst(e)
  \/ DeliverBegin
  \/ \E fail \in BOOLEAN, failStart \in BOOLEAN : DeliverResume(fail, failStart)
  \/ GeneratorReturns
  \/ \E fail \in BOOLEAN : TeardownStopSettles(fail)
  \/ \E isRoomish \in BOOLEAN : TeardownSettles(NoResult, isRoomish)
  \/ \E e \in PairEvents : EmitOther(e)
  \/ DeliverBeginOther
  \/ \E fail \in BOOLEAN, failStart \in BOOLEAN : DeliverResumeOther(fail, failStart)
  \/ OtherReturns
  \/ \E fail \in BOOLEAN : OtherTeardownStopSettles(fail)
  \/ OtherTeardownSettles

SpecPair == InitPair /\ [][NextPair]_vars

----------------------------------------------------------------------------
(* The typing indicator during a dispatch: the dispatcher may run onReplyStart
   while the generator is running and onIdle at any moment *)

MaxTypingEvents == 2

MaxTypingStarts == 2

MaxTypingStops == 3

TypingEvents == {e \in ReplyEvents : e.payload.text = Text(<<"a", "b">>)}

InitTyping ==
  /\ replyToMode = "all"
  /\ streaming \in BOOLEAN
  /\ incomingThreadTs = NoTs
  /\ hasReplied = FALSE
  /\ streamSession = NoSession
  /\ streamFailed = FALSE
  /\ streamedText = <<>>
  /\ calls = <<>>
  /\ events = <<>>
  /\ pc = "running"
  /\ deltaCall = NoDelta
  /\ post = NoPost
  /\ sessionOps = <<>>
  /\ queue = <<>>
  /\ delivery = NoDelivery
  /\ teardown = NoTeardown
  /\ other = NoClosure
  /\ typing = NoTyping

TypingOns == {k \in 1..Len(typing.log) : typing.log[k] = "on"}

DispatchUnchanged ==
  UNCHANGED <<replyToMode, streaming, incomingThreadTs, hasReplied, streamSession,
              streamFailed, streamedText, calls, events, pc, deltaCall, post,
              queue, delivery, teardown, auxVars>>

\* the dispatcher announces that a reply is being produced
ReplyStart ==
  /\ pc = "running"
  /\ Cardinality(TypingOns) < MaxTypingStarts
  /\ typing' = onReplyStart(typing)
  /\ DispatchUnchanged

\* the dispatcher has nothing pending
Idle ==
  /\ typing.stops < MaxTypingStops
  /\ typing' = onIdle(typing)
  /\ DispatchUnchanged

EmitTyping(e) ==
  /\ Emitted < MaxTypingEvents
  /\ Hand(e)

NextTyping ==
  \/ ReplyStart
  \/ Idle
  \/ \E e \in TypingEvents : EmitTyping(e)
  \/ DeliverBegin
  \/ \E fail \in BOOLEAN, failStart \in BOOLEAN : DeliverResume(fail, failStart)
  \/ GeneratorReturns
  \/ GeneratorThrows
  \/ \E fail \in BOOLEAN : TeardownStopSettles(fail)
  \/ \E isRoomish \in BOOLEAN : TeardownSettles(NoResult, isRoomish)

SpecTyping == InitTyping /\ [][NextTyping]_vars

----------------------------------------------------------------------------
(* Vocabulary of the properties *)

CallIdx == 1..Len(calls)
EvIdx == 1..Len(events)

OriginalThread == IF incomingThreadTs = NoTs THEN messageTs ELSE incomingThreadTs

\* the transport answered the call: with success, with an error
Ok(k) == calls[k].settled /\ calls[k].ok
Failed(k) == calls[k].settled /\ ~calls[k].ok

CallsOf(op) == {k \in CallIdx : calls[k].op = op}
SendsOf(j) == {k \in CallIdx : calls[k].op = "send" /\ calls[k].ev = j}

\* a start or append transport call of event j failed
StreamFailureIn(j) ==
  \E k \in CallIdx :
    calls[k].ev = j /\ calls[k].op \in {"start", "append"} /\ Failed(k)

\* event j went through the stream and nothing failed
Streamed(j) == events[j].eligible /\ ~StreamFailureIn(j)

Finished == pc \in {"done", "threw"}

\* the dispatcher holds nothing: no queued event, no delivery in progress
Drained == queue = <<>> /\ delivery.at = "idle"

----------------------------------------------------------------------------
(* C1 *)

\* C1: when a stream start or append call fails while a reply event is handled,
\* a discrete send carrying that event's payload follows the failed call within
\* the same event, and every later reply event of the response is delivered by
\* a discrete send too; in mode "all" each of these sends is addressed to the
\* original thread target.
C1_FallbackToDiscrete ==
  \A i \in EvIdx :
    StreamFailureIn(i) =>
      /\ \A f \in CallIdx :
           (calls[f].ev = i /\ calls[f].op \in {"start", "append"} /\ Failed(f))
             => \E k \in SendsOf(i) : k > f
      /\ \A j \in i..Len(events) :
           \E k \in SendsOf(j) :
             /\ calls[k].text = events[j].payload.text
             /\ (replyToMode = "all" => calls[k].threadTs = OriginalThread)

C1_Witness ==
  /\ replyToMode = "all"
  /\ Len(events) >= 2
  /\ StreamFailureIn(1)
  /\ SendsOf(1) # {}
  /\ SendsOf(2) # {}

----------------------------------------------------------------------------
(* C2 *)

\* C2: once the response has finished, every stream on which an append call
\* failed (the seed append issued inside start, or a later append) has received
\* a transport stop call after the failure.
C2_FailedStreamIsStopped ==
  (Finished /\ Drained) =>
    \A f \in CallIdx :
      (calls[f].op = "append" /\ Failed(f))
        => \E k \in CallsOf("stop") : k > f /\ calls[k].sid = calls[f].sid

----------------------------------------------------------------------------
(* C3 *)

NoStreamCallOnceFailed ==
  \A k \in CallIdx : calls[k].op \in {"start", "append"} => ~calls[k].flag

\* C3: the streaming-failed flag is never cleared once set, and no start or
\* append transport call is made while it is set, whatever has set it.
C3_StickyFailure ==
  [](NoStreamCallOnceFailed) /\ [][streamFailed => streamFailed']_vars

----------------------------------------------------------------------------
(* C4 *)

AllStreamable ==
  /\ Len(events) >= 1
  /\ \A j \in EvIdx :
       events[j].eligible /\ events[j].replyThreadTs = events[1].replyThreadTs
  /\ \A k \in CallIdx : Ok(k)

OneStreamCarrying(seed) ==
  /\ Cardinality(CallsOf("start")) = 1
  /\ \A k \in CallsOf("start") : calls[k].threadTs = events[1].replyThreadTs
  /\ CallsOf("append") # {}
  /\ \A k \in CallsOf("append") :
       (\A m \in CallsOf("append") : k <= m) => calls[k].text = seed
  /\ CallsOf("send") = {}
  /\ Cardinality(CallsOf("stop")) = 1

\* C4 as stated: in a completed response whose events are all stream-eligible
\* for one thread and in which no call fails, one stream is started for that
\* thread, the first append carries the full text of the first payload, there
\* is no discrete send and exactly one stop.
C4_AsStated ==
  (pc = "done" /\ AllStreamable) => OneStreamCarrying(events[1].payload.text)

\* C4 amended: the first append carries the first payload's text with the
\* surrounding whitespace trimmed.
C4_HappyPath ==
  (pc = "done" /\ AllStreamable) => OneStreamCarrying(trim(events[1].payload.text))

C4_Witness ==
  /\ pc = "done"
  /\ AllStreamable
  /\ Len(events) >= 2
  /\ Cardinality(CallsOf("append")) >= 2
  /\ events[1].payload.text # trim(events[1].payload.text)

----------------------------------------------------------------------------
(* C5 *)

\* C5: when the generator has raised and the exception has left the dispatch,
\* every stream that was started has received its transport stop.
C5_StoppedBeforePropagation ==
  pc = "threw" =>
    \A f \in CallsOf("start") :
      Ok(f) => \E k \in CallsOf("stop") : k > f /\ calls[k].sid = calls[f].sid

----------------------------------------------------------------------------
(* C6 *)

\* a discrete send made as fallback, or an append
Redelivery(i, j) ==
  /\ i < j
  /\ calls[i].op = "append" /\ Ok(i) /\ Ok(j)
  /\ \/ calls[j].op = "send" /\ StreamFailureIn(calls[j].ev)
     \/ calls[j].op = "append" /\ calls[j].sid = calls[i].sid

\* C6: a text that was appended to the live stream is not delivered again: no
\* later fallback send and no later append to the same stream begins with it.
C6_NoDuplicateContent ==
  \A i \in CallIdx, j \in CallIdx :
    Redelivery(i, j) => ~startsWith(trim(calls[j].text), trim(calls[i].text))

----------------------------------------------------------------------------
(* C7 *)

IsProperPrefix(p, t) == Len(p) < Len(t) /\ \A i \in 1..Len(p) : p[i] = t[i]

Divergent(prev, next) ==
  /\ prev # <<>>
  /\ next # prev
  /\ ~IsProperPrefix(prev, next)
  /\ ~IsProperPrefix(next, prev)

ReferenceDelta(prev, next) ==
  CASE prev = <<>> -> next
    [] prev # <<>> /\ next = prev -> <<>>
    [] prev # <<>> /\ IsProperPrefix(prev, next) ->
         CHOOSE b \in {SubSeq(next, i, Len(next)) : i \in 1..Len(next)} :
           prev \o b = next
    [] prev # <<>> /\ IsProperPrefix(next, prev) -> <<>>
    [] Divergent(prev, next) -> Text(<<"\n">>) \o next

\* C7: the delta returned for (previous, next) is the reference delta: next
\* without a previous snapshot, empty when equal, the added suffix on
\* extension, empty on shrink, a newline and next on divergence.
C7_DeltaIsReference ==
  deltaCall.n > 0 => deltaCall.delta = ReferenceDelta(deltaCall.prev, deltaCall.next)

C7_Witness ==
  /\ deltaCall.n > 0
  /\ IsProperPrefix(deltaCall.next, deltaCall.prev)
  /\ deltaCall.next # <<>>
  /\ deltaCall.delta = <<>>

----------------------------------------------------------------------------
(* C8 *)

\* C8 as stated: after a delta computation the tracked text is the text of the
\* payload just seen.
C8_AsStated == deltaCall.n > 0 => streamedText = deltaCall.next

\* C8 amended: after a delta computation the tracked text is the text just
\* seen, except on a divergent transition, where it is the previous tracked
\* text, a newline and the text just seen.
C8_TrackedAfterDelta ==
  deltaCall.n > 0 =>
    streamedText = IF Divergent(deltaCall.prev, deltaCall.next)
                   THEN deltaCall.prev \o Text(<<"\n">>) \o deltaCall.next
                   ELSE deltaCall.next

C8_Witness ==
  /\ deltaCall.n > 0
  /\ Divergent(deltaCall.prev, deltaCall.next)
  /\ streamedText # deltaCall.next

----------------------------------------------------------------------------
(* C9 *)

\* C9: in mode "off" no stream call is ever made, whatever the streaming
\* setting, and every reply event has exactly one discrete send, which carries
\* the payload and no thread.
C9_OffNeverStreams ==
  replyToMode = "off" =>
    /\ \A k \in CallIdx : calls[k].op = "send"
    /\ \A j \in EvIdx :
         /\ Cardinality(SendsOf(j)) = 1
         /\ \A k \in SendsOf(j) :
              calls[k].threadTs = NoTs /\ calls[k].text = events[j].payload.text

C9_Witness ==
  /\ replyToMode = "off"
  /\ streaming
  /\ incomingThreadTs # NoTs
  /\ Len(events) >= 2
  /\ Cardinality(CallsOf("send")) = Len(events)

----------------------------------------------------------------------------
(* C10 *)

DeliveredOk(j) == Streamed(j) \/ \E k \in SendsOf(j) : Ok(k)

\* C10: in mode "first" a reply handled while nothing has been marked sent
\* resolves the original thread target, a reply handled once a reply has been
\* marked sent resolves none and its discrete send carries no thread, and the
\* plan is marked sent by every delivered reply, streamed or sent discretely.
C10_FirstReplyOnly ==
  replyToMode = "first" =>
    \A j \in EvIdx :
      /\ events[j].replyThreadTs =
           (IF events[j].hadReplied THEN NoTs ELSE OriginalThread)
      /\ events[j].hadReplied => \A k \in SendsOf(j) : calls[k].threadTs = NoTs
      /\ \A i \in EvIdx : (i < j /\ DeliveredOk(i)) => events[j].hadReplied

C10_Witness ==
  /\ replyToMode = "first"
  /\ Len(events) >= 2
  /\ ~events[1].hadReplied
  /\ Streamed(1)
  /\ SendsOf(1) = {}
  /\ \E k \in SendsOf(2) : Ok(k) /\ calls[k].threadTs = NoTs

----------------------------------------------------------------------------
(* C11 *)

\* C11: in mode "all" every reply event resolves the same thread target, the
\* incoming thread or else the triggering message's own identifier, and every
\* stream and every discrete send of the response is attached to it, before
\* and after the plan was marked sent.
C11_AllSameThread ==
  replyToMode = "all" =>
    /\ \A j \in EvIdx : events[j].replyThreadTs = OriginalThread
    /\ \A k \in CallIdx : calls[k].threadTs = OriginalThread

C11_Witness ==
  /\ replyToMode = "all"
  /\ incomingThreadTs = NoTs
  /\ Len(events) >= 2
  /\ ~events[1].hadReplied
  /\ Streamed(1)
  /\ events[1].replied
  /\ events[2].hadReplied
  /\ \E k \in SendsOf(2) : Ok(k) /\ calls[k].threadTs = messageTs

----------------------------------------------------------------------------
(* C17 *)

\* the generator has failed: the finally block is running or the exception has
\* left the dispatch
GeneratorFailed == pc \in {"throwing", "threw"}

\* C17: when the generator has failed, neither acknowledgement removal nor
\* history trimming is performed and no send is issued after the failure.
C17_AsStated ==
  GeneratorFailed =>
    /\ post = NoPost
    /\ \A k \in CallsOf("send") : k <= teardown.from

----------------------------------------------------------------------------
(* C12 *)

OpIdx == 1..Len(sessionOps)
StopOps == {i \in OpIdx : sessionOps[i].op = "stop"}

\* a transport call issued by the operation of index i failed: the operation
\* throws
OpThrew(i) == \E k \in CallIdx : calls[k].ev = i /\ Failed(k)

\* C12: over any sequence of stop calls on one session the transport stop is
\* invoked exactly once, by the first stop call; every later stop call makes no
\* transport call and raises nothing, also when the first transport stop failed
\* or is still in flight.
C12_StopIdempotent ==
  /\ Cardinality(CallsOf("stop")) = IF StopOps = {} THEN 0 ELSE 1
  /\ \A i \in StopOps :
       IF \E h \in StopOps : h < i
       THEN sessionOps[i].made = 0 /\ ~OpThrew(i)
       ELSE sessionOps[i].made = 1

C12_Witness ==
  /\ Cardinality(StopOps) >= 2
  /\ \E i \in StopOps : OpThrew(i)
  /\ Cardinality(CallsOf("stop")) = 1

----------------------------------------------------------------------------
(* C13 *)

NoAppendAfterStop ==
  /\ \A k \in CallsOf("append"), m \in CallsOf("stop") : k < m
  /\ \A i \in OpIdx :
       (sessionOps[i].op = "append" /\ \E h \in StopOps : h < i)
         => sessionOps[i].made = 0

\* C13: the stopped flag of a session only changes from false to true, and
\* once it is true no append on the session reaches the transport.
C13_StoppedIsFinal ==
  /\ [](NoAppendAfterStop /\ (StopOps # {} => streamSession.stopped))
  /\ [][streamSession.stopped => streamSession'.stopped]_vars

C13_Witness ==
  /\ streamSession.stopped
  /\ \E i \in OpIdx :
       /\ sessionOps[i].op = "append"
       /\ sessionOps[i].text # <<>>
       /\ sessionOps[i].made = 0
       /\ \E h \in StopOps : h < i /\ OpThrew(h)

----------------------------------------------------------------------------
(* C14 *)

FailedSendIn(j) == \E k \in SendsOf(j) : Failed(k)

\* C14: when the discrete send of a reply event fails, the error leaves the
\* delivery router (it is reported to the dispatcher), the event does not mark
\* the plan sent, and the dispatcher goes on: the next queued reply event can
\* be delivered, and while the generator is running it can hand over another.
C14_SendFailureReported ==
  \A j \in EvIdx :
    FailedSendIn(j) =>
      /\ events[j].threw
      /\ events[j].marks = 0
      /\ (queue # <<>> /\ delivery.at = "idle") => ENABLED DeliverBegin
      /\ (pc = "running" /\ Emitted < MaxEvents)
           => \A e \in DispatchEvents : ENABLED Emit(e)

C14_Witness ==
  /\ Len(events) >= 2
  /\ FailedSendIn(1)
  /\ ~events[1].replied
  /\ \E k \in SendsOf(2) : Ok(k)
  /\ events[2].replied

----------------------------------------------------------------------------
(* C18 *)

StreamCalls == {k \in CallIdx : calls[k].op \in {"start", "append"}}

\* the reply event of number j: settled, or the one being delivered
EventOf(j) ==
  IF j \in EvIdx
  THEN events[j]
  ELSE [payload |-> delivery.event.payload, kind |-> delivery.event.kind,
        replyThreadTs |-> delivery.replyThreadTs, eligible |-> delivery.eligible,
        hadReplied |-> delivery.hadReplied, from |-> delivery.from]

\* C18: a start or append transport call is made for a reply event only if
\* streaming is enabled, the failed flag is not set when the call is made, the
\* kind is not tool, the payload has no media, its trimmed text is neither
\* empty nor the silent token, and a non-empty thread target was resolved.
C18_StreamOnlyIfEligible ==
  \A k \in StreamCalls :
    LET j == calls[k].ev
    IN /\ j \in 1..(Len(events) + 1)
       /\ j \notin EvIdx => delivery.at # "idle"
       /\ streaming
       /\ ~calls[k].flag
       /\ EventOf(j).kind # "tool"
       /\ EventOf(j).payload.mediaUrl = ""
       /\ EventOf(j).payload.mediaUrls = <<>>
       /\ trim(EventOf(j).payload.text) \notin {<<>>, SILENT_REPLY_TOKEN}
       /\ trim(EventOf(j).replyThreadTs) # NoTs

----------------------------------------------------------------------------
(* C19 *)

\* the streams started by one of the first n transport calls and not yet the
\* target of a stop call among them
OpenAt(n) ==
  {calls[h].sid : h \in {h \in 1..n : /\ calls[h].op = "start"
                                      /\ Ok(h)
                                      /\ \A g \in (h + 1)..n :
                                           ~(/\ calls[g].op = "stop"
                                             /\ calls[g].sid = calls[h].sid)}}

\* C19: after every transport call of a response at most one started stream
\* has not received a stop call, and a start call is made only when every
\* stream started before it has received its stop call.
C19_OneOpenStream ==
  /\ \A n \in 0..Len(calls) : Cardinality(OpenAt(n)) <= 1
  /\ \A k \in CallsOf("start") : OpenAt(k - 1) = {}

----------------------------------------------------------------------------
(* C20 *)

\* the transport calls made for event j and the i-th of them
CallsFor(j) == {k \in CallIdx : calls[k].ev = j}

NthCall(j, i) ==
  CHOOSE k \in CallsFor(j) : Cardinality({h \in CallsFor(j) : h < k}) = i - 1

\* event j is eligible and finds session h (a start call) active on another thread
ThreadChanged(j, h) ==
  /\ events[j].eligible
  /\ calls[h].op = "start"
  /\ Ok(h)
  /\ calls[h].sid \in OpenAt(events[j].from)
  /\ calls[h].threadTs # trim(events[j].replyThreadTs)

\* the calls of event j open with a stop of session h and a start on the thread
\* of event j, seeded with seed when the start succeeds
Restarted(j, h, seed) ==
  /\ Cardinality(CallsFor(j)) >= 2
  /\ calls[NthCall(j, 1)].op = "stop"
  /\ calls[NthCall(j, 1)].sid = calls[h].sid
  /\ calls[NthCall(j, 1)].threadTs = calls[h].threadTs
  /\ calls[NthCall(j, 2)].op = "start"
  /\ calls[NthCall(j, 2)].threadTs = trim(events[j].replyThreadTs)
  /\ Ok(NthCall(j, 2)) =>
       /\ Cardinality(CallsFor(j)) >= 3
       /\ calls[NthCall(j, 3)].op = "append"
       /\ calls[NthCall(j, 3)].sid = calls[NthCall(j, 2)].sid
       /\ calls[NthCall(j, 3)].text = seed

AppendsOnOwnThread ==
  \A k \in CallsOf("append") :
    /\ calls[k].threadTs = trim(EventOf(calls[k].ev).replyThreadTs)
    /\ \E h \in CallsOf("start") :
         /\ h < k
         /\ calls[h].sid = calls[k].sid
         /\ calls[h].threadTs = calls[k].threadTs

\* C20 as stated: the new stream is seeded with the text of the payload as given
C20_AsStated ==
  /\ AppendsOnOwnThread
  /\ \A j \in EvIdx : \A h \in CallIdx :
       ThreadChanged(j, h) => Restarted(j, h, events[j].payload.text)

\* C20: every append goes to a session started on the thread resolved for the
\* payload, and when an eligible payload resolves a thread other than the
\* active session's, stop is called on the old session and a stream is started
\* on the new thread, seeded with the payload's text trimmed of whitespace.
C20_NoReuseAcrossThreads ==
  /\ AppendsOnOwnThread
  /\ \A j \in EvIdx : \A h \in CallIdx :
       ThreadChanged(j, h) => Restarted(j, h, trim(events[j].payload.text))

C20_Witness ==
  /\ Len(events) = 2
  /\ \E h \in CallIdx : ThreadChanged(2, h)
  /\ \E k \in CallsOf("append") :
       calls[k].ev = 2 /\ Ok(k) /\ calls[k].text = Text(<<"a">>)
  /\ events[2].payload.text = Text(<<" ", "a">>)

----------------------------------------------------------------------------
(* C15 *)

\* the transport calls of the deliveries appear in the order of their events
CallsInEventOrder ==
  \A h, k \in CallIdx :
    (h < k /\ calls[h].ev # 0 /\ calls[k].ev # 0) => calls[h].ev <= calls[k].ev

\* the transport calls of the deliveries that are in flight
InFlight == {k \in CallIdx : calls[k].ev # 0 /\ ~calls[k].settled}

\* once a call has been issued for an event, every call of an earlier event
\* has settled
EarlierEventsSettled ==
  \A h, k \in CallIdx :
    (calls[h].ev # 0 /\ calls[h].ev < calls[k].ev) => calls[h].settled

\* C15: the reply events of one message are delivered in the order the
\* generator emitted them and never overlap: every transport call made for an
\* event has completed before a call for the next event begins, at most one
\* transport call of a delivery is in flight, and it is the last one issued
\* for the event being delivered.
NeverOverlap ==
  /\ CallsInEventOrder
  /\ EarlierEventsSettled
  /\ Cardinality(InFlight) <= 1
  /\ \A k \in InFlight :
       /\ calls[k].ev = Len(events) + 1
       /\ delivery.at # "idle"
       /\ delivery.wait = k

\* the event whose delivery begins or settles in a step is the oldest one the
\* generator handed over and that has not settled
OldestFirst ==
  LET oldest == IF delivery.at # "idle" THEN delivery.event ELSE Head(queue)
  IN /\ (delivery.at = "idle" /\ delivery'.at # "idle") => delivery'.event = oldest
     /\ Len(events') # Len(events) =>
          /\ Len(events') = Len(events) + 1
          /\ events'[Len(events')].payload = oldest.payload
          /\ events'[Len(events')].kind = oldest.kind

C15_SequentialDelivery == [](NeverOverlap) /\ [][OldestFirst]_vars

C15_Witness ==
  /\ Len(events) = 1
  /\ delivery.at # "idle"
  /\ queue = <<>>
  /\ \E k \in CallIdx : calls[k].ev = 1
  /\ \E k \in InFlight : calls[k].ev = 2 /\ \E h \in CallIdx : h < k /\ calls[h].ev = 2

----------------------------------------------------------------------------
(* C16 *)

StreamFailureAt(log, k) ==
  log[k].op \in {"start", "append", "stop"} /\ log[k].settled /\ ~log[k].ok

\* in one dispatch the failed flag and every discrete send of a streamable
\* payload follow a failed stream call of that same dispatch
OwnFailureOnly(log, failed) ==
  /\ failed => \E k \in 1..Len(log) : StreamFailureAt(log, k)
  /\ \A k \in 1..Len(log) :
       log[k].op = "send" => \E h \in 1..(k - 1) : StreamFailureAt(log, h)

FirstState ==
  <<hasReplied, streamSession, streamFailed, streamedText, calls, queue, delivery,
    teardown, events, pc>>

\* C16: two dispatches running concurrently share no delivery state: a step
\* of one leaves the session, tracked text, failed flag and hasReplied flag of
\* the other as they were, and a dispatch falls back to discrete delivery only
\* after a stream failure of its own.
C16_IndependentDispatches ==
  /\ [](OwnFailureOnly(calls, streamFailed) /\ OwnFailureOnly(other.log, other.failed))
  /\ [][/\ (other' # other) => (FirstState' = FirstState)
        /\ (FirstState' # FirstState) => (other' = other)]_vars

C16_Witness ==
  /\ streamFailed
  /\ Len(events) >= 2
  /\ \E k \in SendsOf(2) : Ok(k)
  /\ other.n = 2
  /\ ~other.failed
  /\ \A k \in 1..Len(other.log) :
       other.log[k].settled /\ other.log[k].ok /\ other.log[k].op # "send"
  /\ \E k \in 1..Len(other.log) : other.log[k].op = "append" /\ other.log[k].ev = 2

----------------------------------------------------------------------------
(* C21 *)

\* the sessions active after the first n transport calls: started, seeded
\* without failure, and not yet the target of a stop call
ActiveAt(n) ==
  {sid \in OpenAt(n) :
     \A k \in 1..n : (calls[k].op = "append" /\ calls[k].sid = sid) => Ok(k)}

\* the sessions active when event j begins
ActiveBefore(j) == ActiveAt(EventOf(j).from)

\* C21: when a payload that cannot be streamed arrives while a session is
\* active, the first call of the event is the stop of that session and the
\* next one is the discrete send of the payload, addressed to the thread target
\* resolved for the event.
C21_StopThenSend ==
  \A j \in EvIdx : \A sid \in ActiveBefore(j) :
    ~events[j].eligible =>
      /\ Cardinality(CallsFor(j)) = 2
      /\ calls[NthCall(j, 1)].op = "stop"
      /\ calls[NthCall(j, 1)].sid = sid
      /\ calls[NthCall(j, 1)].settled
      /\ calls[NthCall(j, 2)].op = "send"
      /\ calls[NthCall(j, 2)].text = events[j].payload.text
      /\ calls[NthCall(j, 2)].threadTs = events[j].replyThreadTs

----------------------------------------------------------------------------
(* C22 *)

\* C22: markSent is called exactly once while an event is handled whose
\* delivery succeeded (through the stream or by a discrete send, fallback
\* included), and is not called for an event whose discrete send failed.
C22_MarkedOncePerDelivery ==
  \A j \in EvIdx :
    /\ DeliveredOk(j) => (events[j].marks = 1 /\ events[j].replied)
    /\ FailedSendIn(j) => events[j].marks = 0

C22_Witness ==
  /\ Len(events) = 2
  /\ StreamFailureIn(1) /\ (\E k \in SendsOf(1) : Ok(k)) /\ events[1].marks = 1
  /\ FailedSendIn(2) /\ events[2].marks = 0
  /\ hasReplied

----------------------------------------------------------------------------
(* C23 *)

RepliedStaysTrue ==
  /\ \A j \in EvIdx : \A k \in EvIdx :
       (j < k /\ events[j].replied) => (events[k].hadReplied /\ events[k].replied)
  /\ \A j \in EvIdx : events[j].replied => hasReplied
  /\ \A j \in EvIdx :
       (events[j].hadReplied /\ events[j].marks > 0) => events[j].replied
  /\ hasReplied => markSent(hasReplied) = hasReplied

\* C23: within one response hasReplied never returns from true to false, so it
\* rises at most once: once true, it is true when every later event begins and
\* ends; a markSent call made when it is already true leaves it true.
C23_RepliedIsMonotone ==
  [](RepliedStaysTrue) /\ [][hasReplied => hasReplied']_vars

C23_Witness ==
  /\ Finished
  /\ Len(events) = 2
  /\ events[1].marks = 1
  /\ events[2].hadReplied
  /\ events[2].marks = 1
  /\ hasReplied

----------------------------------------------------------------------------
(* C24 *)

\* where the router is suspended on a stop call, the call settling with either
\* outcome leaves no session and no text and raises nothing
StopStepIsQuiet ==
  (delivery.at \in {"N_stop", "F_stop", "R_stop"} /\ delivery.wait # 0) =>
    \A fail \in BOOLEAN :
      LET r == stopResumed(Closure, fail)
      IN ~r.threw /\ r.session = NoSession /\ r.text = <<>>

\* C24: a failed transport stop issued by the router is not propagated: after
\* every stop call, failed or not, no session is active and the tracked text
\* is empty, the discrete send of the payload being handled is still made, and
\* the event reports an error only if that send failed.
C24_StopFailureSwallowed ==
  /\ StopStepIsQuiet
  /\ \A k \in CallsOf("stop") :
       LET j == calls[k].ev
       IN j \in EvIdx =>
            /\ \E h \in SendsOf(j) : h > k
            /\ events[j].threw => FailedSendIn(j)
            /\ events[j].tracked = <<>>
            /\ (j = Len(events) /\ Drained /\ pc = "running")
                 => (streamSession = NoSession /\ streamedText = <<>>)

C24_Witness ==
  /\ Len(events) = 2
  /\ pc = "running"
  /\ \E k \in CallsOf("stop") : calls[k].ev = 2 /\ Failed(k)
  /\ \E h \in SendsOf(2) : Ok(h)
  /\ ~events[2].threw
  /\ streamSession = NoSession

----------------------------------------------------------------------------
(* C25 *)

TransportOps == {"start", "append", "stop", "send"}

CountOf(j, op) == Cardinality({k \in CallIdx : calls[k].ev = j /\ calls[k].op = op})

\* an append or a stop of the active session makes one transport call, and its
\* failure reaches the caller: the router falls back with the failed flag set,
\* the stop step sets the failed flag
SessionLayerReportsAtOnce ==
  /\ (streamSession # NoSession /\ ~streamSession.stopped) =>
       /\ Len(appendSlackStream(streamSession, Text(<<"a">>), 0, streamFailed)) = 1
       /\ Len(stopSlackStream(streamSession, <<>>, 0, streamFailed).log) = 1
  /\ \A j \in EvIdx :
       StreamFailureIn(j) => \E k \in SendsOf(j) : calls[k].flag
  /\ \A k \in CallsOf("stop") : Failed(k) => streamFailed

\* C25: nothing is retried: while one reply event is handled, and at teardown,
\* each of start, append, stop and send is called at most once, and a failed
\* append or stop of the session layer throws after its single transport call.
C25_NothingRetried ==
  /\ \A j \in 0..(Len(events) + 1) : \A op \in TransportOps : CountOf(j, op) <= 1
  /\ SessionLayerReportsAtOnce

C25_Witness ==
  /\ Len(events) = 2
  /\ \A op \in TransportOps : CountOf(2, op) = 1
  /\ \E k \in CallsOf("append") : calls[k].ev = 2 /\ Failed(k)

----------------------------------------------------------------------------
(* C26 *)

\* the append transport calls made by the operation of index i
AppendsOfOp(i) == {k \in CallIdx : calls[k].op = "append" /\ calls[k].ev = i}

\* C26: a start whose stream was opened and that was given a non-empty initial
\* text makes exactly one append call, carrying that text, right after the
\* start call and as part of the start operation, and the session is returned
\* only when that append has succeeded; a start without initial text and an
\* append of an empty text make no append call.
C26_SeedAppendedOnce ==
  /\ (sessionOps # <<>> /\ Ok(1)) =>
       IF sessionOps[1].text # <<>>
       THEN /\ AppendsOfOp(1) = {2}
            /\ calls[2].text = sessionOps[1].text
            /\ sessionOps[1].made = 2
            /\ streamSession # NoSession => Ok(2)
       ELSE AppendsOfOp(1) = {} /\ sessionOps[1].made = 1
  /\ \A i \in OpIdx :
       (sessionOps[i].op = "append" /\ sessionOps[i].text = <<>>) =>
         (sessionOps[i].made = 0 /\ AppendsOfOp(i) = {} /\ ~OpThrew(i))

C26_Witness ==
  /\ Len(sessionOps) >= 3
  /\ sessionOps[1].text = Text(<<"a">>)
  /\ Len(calls) >= 3
  /\ Ok(2)
  /\ sessionOps[2].op = "append" /\ sessionOps[2].text = <<>>
  /\ sessionOps[3].op = "append" /\ sessionOps[3].text = Text(<<"b">>)
  /\ calls[3].text = Text(<<"b">>)

----------------------------------------------------------------------------
(* C27 *)

\* the dispatch result reports a queued final reply, or a positive block or
\* final count
Counted ==
  \/ post.result.queuedFinal
  \/ \E kind \in DOMAIN post.result.counts : post.result.counts[kind] > 0

\* C27 as stated: when nothing was delivered the history is trimmed and the
\* response has made no outbound send
C27_AsStated ==
  pc = "done" =>
    /\ post.ack = Counted
    /\ ~Counted => (post.trim /\ CallsOf("send") = {})

\* C27: on normal completion the removal of the acknowledgement is attempted
\* exactly when the dispatch result reports a queued final reply or a positive
\* block or final count, whatever the router has sent; otherwise the completion
\* step trims the history if the conversation is a room and does nothing else;
\* in both cases it makes no transport call besides the stop of the stream.
C27_AckIffCounted ==
  pc = "done" =>
    /\ post.ack = Counted
    /\ post.trim = post.roomish
    /\ \A k \in CallIdx : calls[k].ev = 0 => calls[k].op = "stop"

C27_Witness ==
  /\ pc = "done"
  /\ events # <<>>
  /\ ~Counted
  /\ ~post.ack
  /\ ~post.trim
  /\ \E k \in CallsOf("send") : Ok(k)

----------------------------------------------------------------------------
(* C28 *)

LastTyping == typing.log[Len(typing.log)]

\* C28: when the dispatch has finished, by return or by exception, and the
\* typing indicator was turned on during the response, the last typing call
\* is a typing-off and the status is no longer set.
C28_TypingOffAtFinish ==
  (Finished /\ TypingOns # {}) => (LastTyping = "off" /\ ~typing.didSetStatus)

C28_Witness ==
  /\ pc = "threw"
  /\ \E j \in EvIdx : events[j].threw
  /\ typing.log = <<"on", "off", "on", "off">>

----------------------------------------------------------------------------
(* C29 *)

\* C29: every typing-off call directly follows a typing-on call, so a stop
\* with no start before it and a stop following a stop make no call; the
\* status is set exactly while the last call is a typing-on.
C29_OffOnlyAfterOn ==
  /\ \A k \in 1..Len(typing.log) :
       typing.log[k] = "off" => (k > 1 /\ typing.log[k - 1] = "on")
  /\ typing.didSetStatus = (typing.log # <<>> /\ LastTyping = "on")
  /\ Len(typing.log) - Cardinality(TypingOns) <= typing.stops

C29_Witness ==
  /\ typing.stops = 3
  /\ typing.log = <<"on", "off">>
  /\ pc = "running"

----------------------------------------------------------------------------
(* C30 *)

RECURSIVE Appended(_, _)
\* the texts of the successful appends to stream sid among the first n calls,
\* concatenated in order
Appended(sid, n) ==
  IF n = 0
  THEN <<>>
  ELSE Appended(sid, n - 1) \o
       (IF calls[n].op = "append" /\ Ok(n) /\ calls[n].sid = sid
        THEN calls[n].text
        ELSE <<>>)

\* C30: while a session is active and no delivery is in progress, the texts
\* successfully appended to its stream, concatenated in order, equal the
\* tracked snapshot.
C30_StreamEqualsTracked ==
  (streamSession # NoSession /\ ~streamSession.stopped /\ delivery.at = "idle") =>
    Appended(streamSession.sid, Len(calls)) = streamedText

----------------------------------------------------------------------------
(* C31 *)

FailedStops == {k \in CallsOf("stop") : Failed(k)}

\* C31: once a transport stop of a stream has failed, whoever issued it, the
\* failed flag is set; no start and no append call is issued after that stop
\* with the flag set, and a reply event that issues a call with the flag set is
\* delivered by a discrete send.
C31_StopFailureIsSticky ==
  \A k \in FailedStops :
    /\ streamFailed
    /\ \A h \in StreamCalls : h > k => ~calls[h].flag
    /\ \A j \in EvIdx :
         (\E h \in CallsFor(j) : h > k /\ calls[h].flag) => SendsOf(j) # {}

----------------------------------------------------------------------------
(* C32 *)

\* the events for which a start or an append call was made
StreamingEvents == {calls[h].ev : h \in StreamCalls}

\* the append is the seed of its stream: it directly follows the start call
IsSeed(k) ==
  /\ k > 1
  /\ calls[k - 1].op = "start"
  /\ calls[k - 1].sid = calls[k].sid
  /\ calls[k - 1].ev = calls[k].ev

\* C32: with mode "first" and streaming enabled at most one reply event uses
\* the stream; every event handled once a reply was marked sent resolves no
\* thread target, stops the stream that is active and makes an unthreaded
\* discrete send; and every append is the seed of its stream.
C32_FirstStreamsOnce ==
  (replyToMode = "first" /\ streaming) =>
    /\ Cardinality(StreamingEvents) <= 1
    /\ \A j \in EvIdx :
         events[j].hadReplied =>
           /\ events[j].replyThreadTs = NoTs
           /\ SendsOf(j) # {}
           /\ \A k \in SendsOf(j) : calls[k].threadTs = NoTs
           /\ \A sid \in ActiveBefore(j) :
                \E k \in CallsOf("stop") : calls[k].ev = j /\ calls[k].sid = sid
    /\ \A k \in CallsOf("append") : IsSeed(k)

C32_Witness ==
  /\ replyToMode = "first"
  /\ Len(events) = 2
  /\ StreamingEvents = {1}
  /\ \A h \in CallIdx : Ok(h)
  /\ ActiveBefore(2) # {}
  /\ events[2].kind = "block" /\ SendsOf(2) # {}
  /\ \E k \in CallsOf("stop") : calls[k].ev = 2

----------------------------------------------------------------------------
(* C33 *)

\* C33: with mode "first", when a start or append call fails for a reply
\* event, the fallback send of that event carries the thread target resolved
\* for the event, which is the original thread, and the event marks the plan
\* sent exactly when that send succeeded, after it.
C33_FallbackKeepsThread ==
  replyToMode = "first" =>
    \A j \in EvIdx :
      StreamFailureIn(j) =>
        /\ ~events[j].hadReplied
        /\ events[j].replyThreadTs = OriginalThread
        /\ Cardinality(SendsOf(j)) = 1
        /\ \A k \in SendsOf(j) :
             /\ calls[k].threadTs = events[j].replyThreadTs
             /\ events[j].marks = (IF Ok(k) THEN 1 ELSE 0)
             /\ \A h \in CallIdx : (calls[h].ev = j /\ Failed(h) /\ h # k) => h < k

C33_Witness ==
  /\ replyToMode = "first"
  /\ Len(events) = 2
  /\ StreamFailureIn(1)
  /\ \E k \in SendsOf(1) : Ok(k) /\ calls[k].threadTs = OriginalThread
  /\ events[1].replied
  /\ \E k \in SendsOf(2) : Ok(k) /\ calls[k].threadTs = NoTs

----------------------------------------------------------------------------
(* C34 *)

\* event m ends the use of the stream that was active: it cannot be streamed,
\* or it is streamed to another thread than the active session's
BreaksStream(m) ==
  \/ ~events[m].eligible
  \/ \E h \in CallIdx : ThreadChanged(m, h)

\* C34: between two start calls of a response lies a reply event that was not
\* eligible for streaming, or an eligible one resolved to another thread than
\* the active session's (which may be the event of the second start); and an
\* eligible event that follows an eligible event with the same thread target
\* makes no start call.
C34_RestartNeedsBreak ==
  /\ \A h \in CallsOf("start") : \A k \in CallsOf("start") :
       (h < k /\ calls[k].ev \in EvIdx) =>
         /\ calls[h].ev < calls[k].ev
         /\ \E m \in (calls[h].ev + 1)..calls[k].ev : BreaksStream(m)
  /\ \A j \in EvIdx :
       (/\ j > 1
        /\ events[j - 1].eligible
        /\ events[j].eligible
        /\ trim(events[j - 1].replyThreadTs) = trim(events[j].replyThreadTs))
         => \A k \in CallsOf("start") : calls[k].ev # j

----------------------------------------------------------------------------
(* C35 *)

\* C35: between reply events, and after the teardown, the tracked text is
\* empty exactly when no session is active; while the generator is running
\* a session is active exactly when a started and seeded stream has not yet
\* received a stop call.
C35_TrackedIffSession ==
  delivery.at = "idle" =>
    /\ (streamSession = NoSession) = (streamedText = <<>>)
    /\ pc = "running" =>
         (streamSession # NoSession) = (ActiveAt(Len(calls)) # {})
    /\ Len(events) >= 1 => (pc = "running" => events[Len(events)].tracked = streamedText)

C35_Witness ==
  /\ Len(events) = 3
  /\ delivery.at = "idle"
  /\ events[1].tracked # <<>>
  /\ events[2].tracked = <<>>
  /\ streamSession # NoSession
  /\ streamedText = Text(<<"a", "b">>)

====
